---- MODULE Spec2Model ----
(***************************************************************************)
(* Model of opencode-notifications: the focus detectors (focus.ts), the    *)
(* configuration loader (config.ts), the notification gate and the event   *)
(* handlers (index.ts) and the delivery wrapper (notify.ts).               *)
(*                                                                         *)
(* Strings that the code inspects character by character (command output)  *)
(* are sequences of one-character strings.  A value of type string | null  *)
(* is a record [ok, out]: ok = FALSE is null.                              *)
(***************************************************************************)
EXTENDS Integers, Sequences, FiniteSets, TLC

VARIABLES
  env,         \* process.env: XDG_SESSION_TYPE, DISPLAY, TMUX_PANE
  configFile,  \* ~/.config/opencode/opencode-notifications.json
  phase,       \* position of the plugin's start-up (NotificationsPlugin)
  config,      \* const config = loadConfig()
  detector,    \* const { detector, terminalId } = await initFocusDetection()
  terminalId,
  initLog,     \* probes issued by detector.init(), with what they returned
  inv,         \* per handler invocation: position, probes issued, outcome
  handled,     \* number of handler invocations so far
  delivered,   \* per category, number of notify-send commands issued so far
  world,       \* what the window system and tmux would report, or Unobserved
  during,      \* per invocation: the world as it was during its focus check
  content      \* a call of truncate: its arguments and its result

vars == <<env, configFile, phase, config, detector, terminalId, initLog, inv, handled, delivered,
          world, during, content>>

(***************************************************************************)
(* Bounds                                                                  *)
(***************************************************************************)
\* number of events (and permission.ask hooks) the host delivers to the plugin
MaxEvents == 2

\* length of the body strings handed to truncate
MaxLen == 5

\* largest maxLength handed to truncate
MaxCap == 3

(***************************************************************************)
(* Values                                                                  *)
(***************************************************************************)
Null == [ok |-> FALSE, out |-> <<>>]

Some(s) == [ok |-> TRUE, out |-> s]

Undefined == "undefined"

Whitespace == {" ", "\n", "\t"}

RECURSIVE TrimStart(_)
TrimStart(s) ==
  IF s # <<>> /\ Head(s) \in Whitespace THEN TrimStart(Tail(s)) ELSE s

RECURSIVE TrimEnd(_)
TrimEnd(s) ==
  IF s # <<>> /\ s[Len(s)] \in Whitespace
    THEN TrimEnd(SubSeq(s, 1, Len(s) - 1))
    ELSE s

\* String.prototype.trim
Trim(s) == TrimEnd(TrimStart(s))

\* JavaScript truthiness of a string | null | undefined value
TruthyStr(v) == v.ok /\ Len(v.out) > 0

\* JavaScript truthiness of an environment variable (string | undefined)
TruthyEnv(v) == v # Undefined /\ v # ""

\* JavaScript truthiness of a JSON value kept as a token
TruthyJson(v) == v \notin {"false", "null", "undefined", "0", "\"\""}

(***************************************************************************)
(* focus.ts: the command probe                                             *)
(***************************************************************************)
ExecStatus == {"ok", "nonzero", "timeout", "enoent"}

\* what a child process can do: exit 0 with some stdout, or fail
ExecOutcomes(stdouts) ==
  {[status |-> "ok", stdout |-> s] : s \in stdouts}
    \cup {[status |-> st, stdout |-> <<>>] : st \in ExecStatus \ {"ok"}}

runCommandNoTrim(o) == IF o.status = "ok" THEN Some(o.stdout) ELSE Null

runCommand(o) == IF o.status = "ok" THEN Some(Trim(o.stdout)) ELSE Null

commandExists(o) == LET result == runCommand(o) IN result.ok /\ Len(result.out) > 0

\* the state outside the process that the probes read: the window that has
\* the focus, whether the pane's session is attached, whether the pane's
\* window is the active one of its session.  Unobserved: the model does not
\* follow that state and a probe may print anything.
Unobserved == [window |-> "none", attached |-> FALSE, active |-> FALSE]

Worlds == [window : {"7", "9"}, attached : BOOLEAN, active : BOOLEAN]

Flag(b) == IF b THEN <<"1", "\n">> ELSE <<"0", "\n">>

\* stdout of `which <cmd>`
WhichStdouts == {<<"/", "b", "\n">>, <<>>, <<"\n">>}

\* stdout of `xdotool getactivewindow`
WindowStdouts == {<<"7", "\n">>, <<"7">>, <<"9", "\n">>, <<>>, <<"\n">>}

\* stdout of `tmux display-message -p '#{...}'`
TmuxStdouts == {<<"1", "\n">>, <<"1">>, <<"0", "\n">>, <<>>, <<"1", "0", "\n">>, <<"1", " ", "1">>}

One == Some(<<"1">>)

\* the ways `xdotool getactivewindow` can end in the present world
WindowOutcomes ==
  IF world = Unobserved THEN ExecOutcomes(WindowStdouts)
  ELSE ExecOutcomes({<<world.window, "\n">>})

\* the ways `tmux display-message -p '#{session_attached}'` can end
SessionOutcomes ==
  IF world = Unobserved THEN ExecOutcomes(TmuxStdouts)
  ELSE ExecOutcomes({Flag(world.attached)})

\* the ways `tmux display-message -p '#{window_active}'` can end
ActiveOutcomes ==
  IF world = Unobserved THEN ExecOutcomes(TmuxStdouts)
  ELSE ExecOutcomes({Flag(world.active)})

(***************************************************************************)
(* focus.ts: the detectors                                                 *)
(***************************************************************************)
NoDetector == [kind |-> "none", paneId |-> Undefined, inner |-> "none"]

X11FocusDetector == [kind |-> "X11", paneId |-> Undefined, inner |-> "none"]

AlwaysNotifyDetector == [kind |-> "Always", paneId |-> Undefined, inner |-> "none"]

TmuxFocusDetector(paneId, innerDetector) ==
  [kind |-> "Tmux", paneId |-> paneId, inner |-> innerDetector.kind]

\* the detector that answers the window-level question
BaseKind(d) == IF d.kind = "Tmux" THEN d.inner ELSE d.kind

Unsupported == Some(<<"u", "n", "s", "u", "p", "p", "o", "r", "t", "e", "d">>)

AlwaysInit == Unsupported

AlwaysIsTerminalFocusedEcho(id) == id = Unsupported

AlwaysIsTerminalFocused(id) == FALSE

X11IsTerminalFocusedNullEq(currentWindow, id) ==
  currentWindow = id \/ ~currentWindow.ok

X11IsTerminalFocused(currentWindow, id) == currentWindow = id

(***************************************************************************)
(* focus.ts: the detector factory                                          *)
(***************************************************************************)
createFocusDetectorSessionOnly(e) ==
  LET baseDetector == IF e.XDG_SESSION_TYPE = "x11"
                        THEN X11FocusDetector
                        ELSE AlwaysNotifyDetector
  IN IF TruthyEnv(e.TMUX_PANE)
       THEN TmuxFocusDetector(e.TMUX_PANE, baseDetector)
       ELSE baseDetector

createFocusDetector(e) ==
  LET baseDetector == IF e.XDG_SESSION_TYPE = "x11" \/ TruthyEnv(e.DISPLAY)
                        THEN X11FocusDetector
                        ELSE AlwaysNotifyDetector
  IN IF TruthyEnv(e.TMUX_PANE)
       THEN TmuxFocusDetector(e.TMUX_PANE, baseDetector)
       ELSE baseDetector

(***************************************************************************)
(* config.ts                                                               *)
(***************************************************************************)
EventType == {"complete", "error", "permission", "question"}

DEFAULT_CONFIG ==
  [events |-> [c \in EventType |-> "true"], sound |-> [enabled |-> "true"]]

\* the ?? operator
CoalesceFalsy(v, d) == IF ~TruthyJson(v) THEN d ELSE v

Coalesce(v, d) == IF v \in {"null", "undefined"} THEN d ELSE v

\* a config file: absent, not JSON, or JSON whose fields are JSON values
\* ("undefined" for a field the file omits)
Parsed(c, e, p, q, s) ==
  [exists |-> TRUE, valid |-> TRUE,
   events |-> [complete |-> c, error |-> e, permission |-> p, question |-> q],
   sound |-> [enabled |-> s]]

FileMissing == [exists |-> FALSE, valid |-> FALSE,
                events |-> [c \in EventType |-> Undefined],
                sound |-> [enabled |-> Undefined]]

FileInvalid == [exists |-> TRUE, valid |-> FALSE,
                events |-> [c \in EventType |-> Undefined],
                sound |-> [enabled |-> Undefined]]

loadConfig(f) ==
  IF ~f.exists THEN DEFAULT_CONFIG
  ELSE IF ~f.valid THEN DEFAULT_CONFIG
  ELSE [events |-> [c \in EventType |->
                      Coalesce(f.events[c], DEFAULT_CONFIG.events[c])],
        sound |-> [enabled |->
                      Coalesce(f.sound.enabled, DEFAULT_CONFIG.sound.enabled)]]

isEventEnabledAlways(cfg, eventType) == "true"

isEventEnabled(cfg, eventType) == cfg.events[eventType]

NoConfig ==
  [events |-> [c \in EventType |-> Undefined], sound |-> [enabled |-> Undefined]]

(***************************************************************************)
(* notify.ts: the delivery collaborator                                    *)
(***************************************************************************)
\* the one character U+2026
Ellipsis == "..."

\* str.replace(/\s+/g, " ")
RECURSIVE replaceWhitespaceRuns(_)
replaceWhitespaceRuns(str) ==
  IF str = <<>> THEN <<>>
  ELSE IF Head(str) \in Whitespace
    THEN <<" ">> \o replaceWhitespaceRuns(TrimStart(Tail(str)))
  ELSE <<Head(str)>> \o replaceWhitespaceRuns(Tail(str))

\* String.prototype.slice(0, end): a negative end counts from the end
slice(str, end) ==
  LET to == IF end < 0 THEN (IF Len(str) + end < 0 THEN 0 ELSE Len(str) + end)
            ELSE IF end > Len(str) THEN Len(str) ELSE end
  IN SubSeq(str, 1, to)

truncateFullCap(str, maxLength) ==
  LET cleaned == Trim(replaceWhitespaceRuns(str))
  IN IF Len(cleaned) <= maxLength THEN cleaned
     ELSE slice(cleaned, maxLength) \o <<Ellipsis>>

truncate(str, maxLength) ==
  LET cleaned == Trim(replaceWhitespaceRuns(str))
  IN IF Len(cleaned) <= maxLength THEN cleaned
     ELSE slice(cleaned, maxLength - 1) \o <<Ellipsis>>

NoContent == [str |-> <<>>, maxLength |-> 0, called |-> FALSE, result |-> <<>>]

EVENT_SOUNDS ==
  [complete |-> "dialog-information", error |-> "dialog-error",
   permission |-> "dialog-warning", question |-> "dialog-question"]

getEventSound(eventType) == EVENT_SOUNDS[eventType]

\* execAsync(cmd).then(() => {}).catch(() => {})
notifySettledNoCatch(status) == IF status = "ok" THEN "fulfilled" ELSE "rejected"

notifySettled(status) == "fulfilled"

\* try { await execAsync(...) } catch {}
playSound(status) == "fulfilled"

\* the promises sendNotification starts before it awaits Promise.all
sendNotificationAlwaysSound(r, playSoundOpt, soundId) ==
  [r EXCEPT !.pc = "sending", !.sent = @ + 1, !.notify = "pending", !.sound = "pending"]

sendNotification(r, playSoundOpt, soundId) ==
  [r EXCEPT !.pc = "sending",
            !.sent = @ + 1,
            !.notify = "pending",
            !.sound = IF TruthyJson(playSoundOpt) /\ soundId # ""
                        THEN "pending" ELSE "none"]

\* await Promise.all(promises): rejects with the first rejection, resolves
\* when every promise has resolved
promiseAll(r) ==
  IF "rejected" \in {r.notify, r.sound}
    THEN [r EXCEPT !.pc = "done", !.outcome = "rejected"]
  ELSE IF "pending" \in {r.notify, r.sound} THEN r
  ELSE [r EXCEPT !.pc = "done", !.outcome = "delivered"]

(***************************************************************************)
(* index.ts: the notification gate                                         *)
(***************************************************************************)
Procs == {"a", "b"}

Idle == [pc |-> "idle", src |-> "none", eventType |-> "none", probes |-> <<>>,
         id |-> Null, inner |-> "none", focus |-> "none", sent |-> 0,
         notify |-> "none", sound |-> "none", failed |-> {},
         outcome |-> "none"]

Bool(b) == IF b THEN "true" ELSE "false"

\* maybeNotify, lines 46-52
gateSend(r) ==
  sendNotification(r, config.sound.enabled, getEventSound(r.eventType))

\* maybeNotify, lines 42-44, once detector.isTerminalFocused has resolved
gateAfterFocusInverted(r, focused) ==
  IF focused
    THEN gateSend(r)
    ELSE [r EXCEPT !.pc = "done", !.outcome = "focused"]

gateAfterFocus(r, focused) ==
  IF focused
    THEN [r EXCEPT !.pc = "done", !.outcome = "focused"]
    ELSE gateSend(r)

\* a detector's isTerminalFocused returns: its promise resolves
resolve(r, focused) == [r EXCEPT !.pc = "resolved", !.focus = Bool(focused)]

\* TmuxFocusDetector.isTerminalFocused, lines 92-95
tmuxAfterWindowNotZero(r, windowActive) ==
  resolve(r, windowActive # Some(<<"0">>))

tmuxAfterWindowAlways(r, windowActive) == resolve(r, TRUE)

tmuxAfterWindow(r, windowActive) == resolve(r, windowActive = One)

\* TmuxFocusDetector.isTerminalFocused, lines 84-89
tmuxAfterSessionNoReturn(r, sessionAttached) == [r EXCEPT !.pc = "windowActive"]

tmuxAfterSession(r, sessionAttached) ==
  IF sessionAttached # One
    THEN resolve(r, FALSE)
    ELSE [r EXCEPT !.pc = "windowActive"]

\* the window-level answer is known: X11 and Always-Notify return it,
\* TmuxFocusDetector.isTerminalFocused continues at lines 78-86
afterInnerNoShortCircuit(r, terminalFocused) ==
  LET r1 == [r EXCEPT !.inner = Bool(terminalFocused)]
  IN IF detector.kind = "Tmux"
       THEN [r1 EXCEPT !.pc = "sessionAttached"]
       ELSE resolve(r1, terminalFocused)

afterInner(r, terminalFocused) ==
  LET r1 == [r EXCEPT !.inner = Bool(terminalFocused)]
  IN IF detector.kind = "Tmux"
       THEN IF ~terminalFocused
              THEN resolve(r1, FALSE)
              ELSE [r1 EXCEPT !.pc = "sessionAttached"]
       ELSE resolve(r1, terminalFocused)

\* detector.isTerminalFocused(id) up to its first await
isTerminalFocusedEnter(r, id) ==
  IF BaseKind(detector) = "X11"
    THEN [r EXCEPT !.pc = "activeWindow", !.id = id]
    ELSE afterInner([r EXCEPT !.id = id], AlwaysIsTerminalFocused(id))

\* maybeNotify up to its first await
maybeNotifyNoIdentityCheck(r, eventType) ==
  LET r1 == [r EXCEPT !.eventType = eventType]
  IN IF ~TruthyJson(isEventEnabled(config, eventType))
       THEN [r1 EXCEPT !.pc = "done", !.outcome = "disabled"]
     ELSE isTerminalFocusedEnter(r1, terminalId)

maybeNotifyFocusFirst(r, eventType) ==
  LET r1 == [r EXCEPT !.eventType = eventType]
  IN IF TruthyStr(terminalId) THEN isTerminalFocusedEnter(r1, terminalId)
     ELSE IF ~TruthyJson(isEventEnabled(config, eventType))
       THEN [r1 EXCEPT !.pc = "done", !.outcome = "disabled"]
     ELSE gateSend(r1)

maybeNotifyCached(r, eventType) ==
  LET r1 == [r EXCEPT !.eventType = eventType]
  IN IF ~TruthyJson(isEventEnabled(config, eventType))
       THEN [r1 EXCEPT !.pc = "done", !.outcome = "disabled"]
     ELSE IF ~TruthyStr(terminalId) \/ delivered[eventType] > 0 THEN gateSend(r1)
     ELSE isTerminalFocusedEnter(r1, terminalId)

maybeNotify(r, eventType) ==
  LET r1 == [r EXCEPT !.eventType = eventType]
  IN IF ~TruthyJson(isEventEnabled(config, eventType))
       THEN [r1 EXCEPT !.pc = "done", !.outcome = "disabled"]
     ELSE IF ~TruthyStr(terminalId) THEN gateSend(r1)
     ELSE isTerminalFocusedEnter(r1, terminalId)

(***************************************************************************)
(* index.ts: the event handlers                                            *)
(***************************************************************************)
\* event.type values the host sends; "message.updated" stands for every
\* type the handler does not name
HostEvents == {"session.idle", "session.error", "permission.updated",
               "permission.asked", "question.asked", "message.updated"}

\* the handler's chain of if statements, lines 61-102
categoryOfNoLegacy(type) ==
  CASE type = "session.idle" -> "complete"
    [] type = "session.error" -> "error"
    [] type = "permission.asked" -> "permission"
    [] type = "question.asked" -> "permission"
    [] OTHER -> "none"

\* the handler's if statements, in their order: the event type each one
\* tests for and the category it hands to maybeNotify
HandlerBranches ==
  <<[type |-> "session.idle", category |-> "complete"],
    [type |-> "session.error", category |-> "error"],
    [type |-> "permission.updated", category |-> "permission"],
    [type |-> "permission.asked", category |-> "permission"],
    [type |-> "question.asked", category |-> "question"]>>

\* the maybeNotify calls one run of the handler makes for an event of this type
gateCalls(type) == SelectSeq(HandlerBranches, LAMBDA b : b.type = type)

categoryOf(type) ==
  CASE type = "session.idle" -> "complete"
    [] type = "session.error" -> "error"
    [] type = "permission.updated" -> "permission"
    [] type = "permission.asked" -> "permission"
    [] type = "question.asked" -> "question"
    [] OTHER -> "none"

Checking == {"activeWindow", "sessionAttached", "windowActive"}

NotChecking == [all |-> FALSE, changed |-> FALSE]

\* outer window focused AND session attached AND pane's window active
AllThree(w, id) == Some(<<w.window>>) = id /\ w.attached /\ w.active

\* the new invocation record and the notify-send command it may have issued;
\* a focus check that starts begins its observation of the world
Step(p, r) ==
  /\ inv' = [inv EXCEPT ![p] = r]
  /\ during' = IF inv[p].pc \in {"idle", "done"}
                 THEN [during EXCEPT ![p] = [all |-> r.pc \in Checking /\ AllThree(world, r.id),
                                             changed |-> FALSE]]
               ELSE during
  /\ LET before == IF inv[p].pc \in {"idle", "done"} THEN 0 ELSE inv[p].sent
     IN delivered' = IF r.sent > before
                       THEN [delivered EXCEPT ![r.eventType] = @ + (r.sent - before)]
                       ELSE delivered

Ready(p) ==
  /\ phase = "ready"
  /\ inv[p].pc \in {"idle", "done"}
  /\ handled < MaxEvents

\* event: async ({ event }) => { ... }
HandleEvent(p) ==
  /\ Ready(p)
  /\ \E type \in HostEvents :
       LET r == [Idle EXCEPT !.src = type]
       IN IF categoryOf(type) = "none"
            THEN Step(p, [r EXCEPT !.pc = "done", !.outcome = "ignored"])
            ELSE Step(p, maybeNotify(r, categoryOf(type)))
  /\ handled' = handled + 1
  /\ UNCHANGED <<env, configFile, phase, config, detector, terminalId, initLog, world, content>>

\* "permission.ask": async (input) => { ... }
PermissionAskHook(p) ==
  /\ Ready(p)
  /\ Step(p, maybeNotify([Idle EXCEPT !.src = "permission.ask"], "permission"))
  /\ handled' = handled + 1
  /\ UNCHANGED <<env, configFile, phase, config, detector, terminalId, initLog, world, content>>

Logged(r, cmd, res) == [r EXCEPT !.probes = Append(@, [cmd |-> cmd, res |-> res])]

\* X11FocusDetector.isTerminalFocused resumes after its await
ActiveWindowReturnsRecapture(p) ==
  /\ inv[p].pc = "activeWindow"
  /\ \E o \in WindowOutcomes :
       LET currentWindow == runCommand(o)
       IN /\ Step(p, afterInner(Logged(inv[p], "getactivewindow", currentWindow),
                                X11IsTerminalFocused(currentWindow, inv[p].id)))
          /\ terminalId' = IF currentWindow.ok THEN currentWindow ELSE terminalId
  /\ UNCHANGED <<env, configFile, phase, config, detector, initLog, handled, world, content>>

ActiveWindowReturns(p) ==
  /\ inv[p].pc = "activeWindow"
  /\ \E o \in WindowOutcomes :
       LET currentWindow == runCommand(o)
       IN Step(p, afterInner(Logged(inv[p], "getactivewindow", currentWindow),
                             X11IsTerminalFocused(currentWindow, inv[p].id)))
  /\ UNCHANGED <<env, configFile, phase, config, detector, terminalId, initLog, handled, world, content>>

\* TmuxFocusDetector.isTerminalFocused resumes after its second await
SessionAttachedReturns(p) ==
  /\ inv[p].pc = "sessionAttached"
  /\ \E o \in SessionOutcomes :
       LET sessionAttached == runCommand(o)
       IN Step(p, tmuxAfterSession(Logged(inv[p], "session_attached", sessionAttached),
                                   sessionAttached))
  /\ UNCHANGED <<env, configFile, phase, config, detector, terminalId, initLog, handled, world, content>>

\* TmuxFocusDetector.isTerminalFocused resumes after its third await
WindowActiveReturns(p) ==
  /\ inv[p].pc = "windowActive"
  /\ \E o \in ActiveOutcomes :
       LET windowActive == runCommand(o)
       IN Step(p, tmuxAfterWindow(Logged(inv[p], "window_active", windowActive),
                                  windowActive))
  /\ UNCHANGED <<env, configFile, phase, config, detector, terminalId, initLog, handled, world, content>>

\* maybeNotify resumes after await detector.isTerminalFocused(terminalId)
GateResumesShared(p) ==
  /\ inv[p].pc = "resolved"
  /\ \E q \in Procs :
       /\ inv[q].focus # "none"
       /\ Step(p, gateAfterFocus(inv[p], inv[q].focus = "true"))
  /\ UNCHANGED <<env, configFile, phase, config, detector, terminalId, initLog, handled, world, content>>

GateResumes(p) ==
  /\ inv[p].pc = "resolved"
  /\ Step(p, gateAfterFocus(inv[p], inv[p].focus = "true"))
  /\ UNCHANGED <<env, configFile, phase, config, detector, terminalId, initLog, handled, world, content>>

\* the delivery commands of r that did not exit with status 0
Exited(r, cmd, st) ==
  [r EXCEPT !.failed = IF st = "ok" THEN @ ELSE @ \cup {cmd}]

\* the notify-send child process ends (or is killed at the timeout)
NotifySendReturns(p) ==
  /\ inv[p].pc = "sending"
  /\ inv[p].notify = "pending"
  /\ \E st \in ExecStatus :
       Step(p, promiseAll(Exited([inv[p] EXCEPT !.notify = notifySettled(st)],
                                 "notify-send", st)))
  /\ UNCHANGED <<env, configFile, phase, config, detector, terminalId, initLog, handled, world, content>>

\* the canberra-gtk-play child process ends (or is killed at the timeout)
PlaySoundReturns(p) ==
  /\ inv[p].pc = "sending"
  /\ inv[p].sound = "pending"
  /\ \E st \in ExecStatus :
       Step(p, promiseAll(Exited([inv[p] EXCEPT !.sound = playSound(st)],
                                 "canberra-gtk-play", st)))
  /\ UNCHANGED <<env, configFile, phase, config, detector, terminalId, initLog, handled, world, content>>

\* the user moves the focus, attaches or detaches the session, or switches
\* the session's active window: one of the three changes
WorldChanges ==
  /\ world # Unobserved
  /\ \E w \in Worlds :
       /\ Cardinality({f \in {"window", "attached", "active"} : w[f] # world[f]}) = 1
       /\ world' = w
  /\ during' = [p \in Procs |->
                  IF inv[p].pc \in Checking
                    THEN [during[p] EXCEPT !.all = @ \/ AllThree(world', inv[p].id),
                                           !.changed = TRUE]
                    ELSE during[p]]
  /\ UNCHANGED <<env, configFile, phase, config, detector, terminalId, initLog, inv, handled,
                 delivered, content>>

(***************************************************************************)
(* index.ts / focus.ts: start-up                                           *)
(***************************************************************************)
\* detector.init() up to its first await, for the inner (or only) detector
innerInitEnter(d) ==
  IF BaseKind(d) = "X11"
    THEN [phase |-> "whichXdotool", terminalId |-> Null]
    ELSE [phase |-> "ready", terminalId |-> AlwaysInit]

\* detector.init() up to its first await
initEnter(d) ==
  IF d.kind = "Tmux"
    THEN [phase |-> "whichTmux", terminalId |-> Null]
    ELSE innerInitEnter(d)

\* loadConfig(); createFocusDetector(); detector.init() up to its first await
LoadPlugin ==
  /\ phase = "start"
  /\ config' = loadConfig(configFile)
  /\ detector' = createFocusDetector(env)
  /\ phase' = initEnter(detector').phase
  /\ terminalId' = initEnter(detector').terminalId
  /\ UNCHANGED <<env, configFile, initLog, inv, handled, delivered, world, during, content>>

\* TmuxFocusDetector.init resumes: both branches return innerDetector.init()
WhichTmuxReturns ==
  /\ phase = "whichTmux"
  /\ \E o \in ExecOutcomes(WhichStdouts) :
       /\ initLog' = Append(initLog, [cmd |-> "which tmux", res |-> runCommand(o)])
       /\ LET n == innerInitEnter(detector)
          IN phase' = n.phase /\ terminalId' = n.terminalId
  /\ UNCHANGED <<env, configFile, config, detector, inv, handled, delivered, world, during, content>>

\* X11FocusDetector.init resumes after commandExists("xdotool")
WhichXdotoolReturns ==
  /\ phase = "whichXdotool"
  /\ \E o \in ExecOutcomes(WhichStdouts) :
       /\ initLog' = Append(initLog, [cmd |-> "which xdotool", res |-> runCommand(o)])
       /\ IF ~commandExists(o)
            THEN phase' = "ready" /\ terminalId' = Null
            ELSE phase' = "initActiveWindow" /\ terminalId' = terminalId
  /\ UNCHANGED <<env, configFile, config, detector, inv, handled, delivered, world, during, content>>

\* X11FocusDetector.init: return runCommand("xdotool getactivewindow")
InitActiveWindowReturns ==
  /\ phase = "initActiveWindow"
  /\ \E o \in WindowOutcomes :
       /\ initLog' = Append(initLog, [cmd |-> "getactivewindow", res |-> runCommand(o)])
       /\ terminalId' = runCommand(o)
  /\ phase' = "ready"
  /\ UNCHANGED <<env, configFile, config, detector, inv, handled, delivered, world, during, content>>

(***************************************************************************)
(* Specifications                                                          *)
(***************************************************************************)
Envs ==
  [XDG_SESSION_TYPE : {Undefined, "x11", "wayland"},
   DISPLAY : {Undefined, "", ":0"},
   TMUX_PANE : {Undefined, "", "%1"}]

Scenario(sessionType, display, pane) ==
  [XDG_SESSION_TYPE |-> sessionType, DISPLAY |-> display, TMUX_PANE |-> pane]

\* the environments of the selection table, one or more per composition
TableEnvs ==
  {Scenario("x11", Undefined, Undefined),
   Scenario(Undefined, ":0", Undefined),
   Scenario("wayland", Undefined, Undefined),
   Scenario("x11", Undefined, "%1"),
   Scenario(Undefined, Undefined, "%1")}

ConfigFiles ==
  {FileMissing, FileInvalid,
   Parsed(Undefined, Undefined, Undefined, Undefined, Undefined),
   Parsed("true", "false", "true", Undefined, Undefined),
   Parsed("false", "false", "false", "false", "false"),
   Parsed("0", "\"false\"", "null", "true", "false")}

Init ==
  /\ env \in TableEnvs
  /\ configFile \in ConfigFiles
  /\ phase = "start"
  /\ config = NoConfig
  /\ detector = NoDetector
  /\ terminalId = Null
  /\ initLog = <<>>
  /\ inv = [p \in Procs |-> Idle]
  /\ handled = 0
  /\ delivered = [c \in EventType |-> 0]
  /\ world = Unobserved
  /\ during = [p \in Procs |-> NotChecking]
  /\ content = NoContent

StartUp ==
  \/ LoadPlugin
  \/ WhichTmuxReturns
  \/ WhichXdotoolReturns
  \/ InitActiveWindowReturns

Handler(p) ==
  \/ HandleEvent(p)
  \/ PermissionAskHook(p)
  \/ ActiveWindowReturns(p)
  \/ SessionAttachedReturns(p)
  \/ WindowActiveReturns(p)
  \/ GateResumes(p)
  \/ NotifySendReturns(p)
  \/ PlaySoundReturns(p)

\* the host awaits each handler before it sends the next event
Next == StartUp \/ Handler("a")

Spec == Init /\ [][Next]_vars

\* every child process is started with { timeout: 5000 }: it ends or is
\* killed, and the event loop then resumes the awaiting function
Fairness ==
  \A p \in {"a"} :
    /\ WF_vars(ActiveWindowReturns(p))
    /\ WF_vars(SessionAttachedReturns(p))
    /\ WF_vars(WindowActiveReturns(p))
    /\ WF_vars(GateResumes(p))
    /\ WF_vars(NotifySendReturns(p))
    /\ WF_vars(PlaySoundReturns(p))

\* the configuration files that give different configurations
LiveConfigFiles ==
  ConfigFiles \ {FileInvalid, Parsed(Undefined, Undefined, Undefined, Undefined, Undefined)}

InitLive == Init /\ configFile \in LiveConfigFiles

SpecLive == InitLive /\ [][Next]_vars /\ Fairness

(***************************************************************************)
(* The detectors on their own: the factory applied to every environment,   *)
(* init and isTerminalFocused called directly with any identity string.    *)
(***************************************************************************)
\* identity strings a caller may pass, captured by some init or not
AnyIds == {Some(<<"7">>), Some(<<"9">>), Some(<<"7", "\n">>), Some(<<>>), Unsupported}

InitDetector ==
  /\ env \in Envs
  /\ configFile = FileMissing
  /\ phase = "unit"
  /\ config = NoConfig
  /\ detector = NoDetector
  /\ terminalId = Null
  /\ initLog = <<>>
  /\ inv = [p \in Procs |-> Idle]
  /\ handled = 0
  /\ delivered = [c \in EventType |-> 0]
  /\ world = Unobserved
  /\ during = [p \in Procs |-> NotChecking]
  /\ content = NoContent

\* const detector = createFocusDetector()
CreateDetector ==
  /\ phase = "unit"
  /\ detector' = createFocusDetector(env)
  /\ phase' = "created"
  /\ UNCHANGED <<env, configFile, config, terminalId, initLog, inv, handled, delivered, world, during, content>>

\* detector.init()
CallInit ==
  /\ phase = "created"
  /\ phase' = initEnter(detector).phase
  /\ terminalId' = initEnter(detector).terminalId
  /\ UNCHANGED <<env, configFile, config, detector, initLog, inv, handled, delivered, world, during, content>>

\* detector.isTerminalFocused(id), before, during or after init
CallIsTerminalFocused(p) ==
  /\ phase \notin {"start", "unit"}
  /\ inv[p].pc \in {"idle", "resolved"}
  /\ \E id \in AnyIds :
       inv' = [inv EXCEPT ![p] = isTerminalFocusedEnter([Idle EXCEPT !.src = "call"], id)]
  /\ UNCHANGED <<env, configFile, phase, config, detector, terminalId, initLog, handled, delivered, world, during, content>>

NextDetector ==
  \/ CreateDetector
  \/ CallInit
  \/ WhichTmuxReturns
  \/ WhichXdotoolReturns
  \/ InitActiveWindowReturns
  \/ CallIsTerminalFocused("a")
  \/ ActiveWindowReturns("a")
  \/ SessionAttachedReturns("a")
  \/ WindowActiveReturns("a")

SpecDetector == InitDetector /\ [][NextDetector]_vars

(***************************************************************************)
(* The Tmux-wrapped detector against a world that changes while it probes. *)
(***************************************************************************)
InitWorld ==
  /\ env = Scenario("x11", Undefined, "%1")
  /\ configFile = FileMissing
  /\ phase = "start"
  /\ config = NoConfig
  /\ detector = NoDetector
  /\ terminalId = Null
  /\ initLog = <<>>
  /\ inv = [p \in Procs |-> Idle]
  /\ handled = 0
  /\ delivered = [c \in EventType |-> 0]
  /\ world \in Worlds
  /\ during = [p \in Procs |-> NotChecking]
  /\ content = NoContent

NextWorld == StartUp \/ Handler("a") \/ WorldChanges

SpecWorld == InitWorld /\ [][NextWorld]_vars

(***************************************************************************)
(* Two handler invocations in flight: the host does not await one event's  *)
(* handler before it calls the handler of the next event.                  *)
(***************************************************************************)
\* the world in which the terminal is in view: whether an invocation delivers
\* depends on which of its probes fail
ConcWorlds == {w \in Worlds : w.window = "7" /\ w.attached /\ w.active}

InitConc ==
  /\ env = Scenario("x11", Undefined, "%1")
  /\ configFile = FileMissing
  /\ phase = "start"
  /\ config = NoConfig
  /\ detector = NoDetector
  /\ terminalId = Null
  /\ initLog = <<>>
  /\ inv = [p \in Procs |-> Idle]
  /\ handled = 0
  /\ delivered = [c \in EventType |-> 0]
  /\ world \in ConcWorlds
  /\ during = [p \in Procs |-> NotChecking]
  /\ content = NoContent

NextConc == StartUp \/ Handler("a") \/ Handler("b")

SpecConc == InitConc /\ [][NextConc]_vars

(***************************************************************************)
(* truncate on its own, applied to every short body and small cap.         *)
(***************************************************************************)
BodyChars == {"a", "b", " ", "\n"}

Bodies == UNION {[1..n -> BodyChars] : n \in 0..MaxLen}

InitContent ==
  /\ env = Scenario(Undefined, Undefined, Undefined)
  /\ configFile = FileMissing
  /\ phase = "unit"
  /\ config = NoConfig
  /\ detector = NoDetector
  /\ terminalId = Null
  /\ initLog = <<>>
  /\ inv = [p \in Procs |-> Idle]
  /\ handled = 0
  /\ delivered = [c \in EventType |-> 0]
  /\ world = Unobserved
  /\ during = [p \in Procs |-> NotChecking]
  /\ \E str \in Bodies : \E maxLength \in 0..MaxCap :
       content = [str |-> str, maxLength |-> maxLength, called |-> FALSE, result |-> <<>>]

\* truncate(str, maxLength)
CallTruncate ==
  /\ ~content.called
  /\ content' = [content EXCEPT !.called = TRUE,
                                 !.result = truncate(content.str, content.maxLength)]
  /\ UNCHANGED <<env, configFile, phase, config, detector, terminalId, initLog, inv, handled,
                 delivered, world, during>>

NextContent == CallTruncate

SpecContent == InitContent /\ [][NextContent]_vars

(***************************************************************************)
(* Properties                                                              *)
(***************************************************************************)
\* results returned by the probes of kind cmd that invocation r issued
ResOf(r, cmd) ==
  {r.probes[i].res : i \in {j \in DOMAIN r.probes : r.probes[j].cmd = cmd}}

\* the gate ran for r, for a category the loaded configuration enables
EnabledGate(r) ==
  /\ r.eventType \in EventType
  /\ TruthyJson(config.events[r.eventType])

\* the gate of r has decided: it returned or it handed over to delivery
Decided(r) == r.pc \in {"sending", "done"}

\* C1: for an event of an enabled category the gate invokes the delivery
\* collaborator exactly once when no identity was captured at init or
\* isTerminalFocused(identity) returned false, and not at all when an
\* identity was captured and isTerminalFocused returned true.
C1_GateDelivers ==
  \A p \in Procs :
    (Decided(inv[p]) /\ EnabledGate(inv[p])) =>
      /\ (terminalId = Null \/ inv[p].focus = "false") => inv[p].sent = 1
      /\ (terminalId # Null /\ inv[p].focus = "true") => inv[p].sent = 0

\* a second event of a category is suppressed after a first one was delivered
C1_Witness ==
  /\ inv["a"].pc = "done"
  /\ EnabledGate(inv["a"])
  /\ terminalId # Null
  /\ inv["a"].focus = "true"
  /\ inv["a"].sent = 0
  /\ delivered[inv["a"].eventType] = 1

\* C2: a category the configuration file disables never has the delivery
\* collaborator invoked, whatever the number of its events.
C2_DisabledNeverDelivered ==
  \A c \in EventType :
    (phase = "ready" /\ configFile.valid /\ configFile.events[c] = "false")
      => delivered[c] = 0

\* every event the host sent was of one disabled category
C2_Witness ==
  /\ handled = MaxEvents
  /\ inv["a"].pc = "done"
  /\ inv["a"].eventType = "error"
  /\ inv["a"].outcome = "disabled"
  /\ configFile = Parsed("true", "false", "true", Undefined, Undefined)
  /\ terminalId # Null
  /\ \A c \in EventType : delivered[c] = 0

\* a probe entry that carries no usable signal: the command failed or timed
\* out (null), or its output is not of the expected form
Unusable(e) ==
  \/ e.res = Null
  \/ e.cmd \in {"which tmux", "which xdotool", "getactivewindow"} /\ e.res.out = <<>>
  \/ e.cmd \in {"session_attached", "window_active"}
       /\ e.res \notin {One, Some(<<"0">>)}

SomeUnusable(log) == \E i \in DOMAIN log : Unusable(log[i])

\* init left the plugin without an identity: xdotool was not resolvable or
\* the initial active-window probe failed or printed nothing
NoIdentityAtInit ==
  \E i \in DOMAIN initLog :
    initLog[i].cmd \in {"which xdotool", "getactivewindow"} /\ Unusable(initLog[i])

\* C3 as stated: any failed probe, during the event or at init, forces the
\* notification of an enabled event to be dispatched.
C3_AnyProbeFailureDispatches ==
  \A p \in Procs :
    (Decided(inv[p]) /\ EnabledGate(inv[p])
       /\ (SomeUnusable(inv[p].probes) \/ SomeUnusable(initLog)))
      => inv[p].sent = 1

\* C3 amended: a failed probe during the event, or an init that captured no
\* identity, forces the dispatch; a failed `which tmux` alone does not.
C3_FailOpen ==
  \A p \in Procs :
    (Decided(inv[p]) /\ EnabledGate(inv[p])
       /\ (SomeUnusable(inv[p].probes) \/ NoIdentityAtInit))
      => inv[p].sent = 1

\* the last of the three probes failed after the first two said "focused"
C3_Witness ==
  /\ Decided(inv["a"])
  /\ EnabledGate(inv["a"])
  /\ detector.kind = "Tmux"
  /\ inv["a"].inner = "true"
  /\ ResOf(inv["a"], "session_attached") = {One}
  /\ ResOf(inv["a"], "window_active") = {Null}
  /\ inv["a"].sent = 1

\* C4: the Tmux detector answers true exactly when the inner detector
\* answered true and both tmux probes returned "1".
C4_TmuxTrueIffAllThree ==
  \A p \in Procs :
    (detector.kind = "Tmux" /\ inv[p].pc = "resolved") =>
      (inv[p].focus = "true" <=>
         /\ inv[p].inner = "true"
         /\ ResOf(inv[p], "session_attached") = {One}
         /\ ResOf(inv[p], "window_active") = {One})

C4_Witness ==
  /\ detector.kind = "Tmux"
  /\ inv["a"].pc = "resolved"
  /\ inv["a"].focus = "true"
  /\ Len(inv["a"].probes) = 3

IssuedProbe(r, cmd, at) == r.pc = at \/ ResOf(r, cmd) # {}

\* C5: the Tmux detector asks in the order inner, session_attached,
\* window_active and stops at the first negative answer: no tmux probe after
\* an inner false, no window_active probe unless session_attached was "1".
C5_ShortCircuit ==
  \A p \in Procs :
    detector.kind = "Tmux" =>
      LET r == inv[p]
          session == IssuedProbe(r, "session_attached", "sessionAttached")
          window == IssuedProbe(r, "window_active", "windowActive")
      IN /\ r.inner = "false" =>
              ~session /\ ~window /\ r.pc = "resolved" /\ r.focus = "false"
         /\ (ResOf(r, "session_attached") \notin {{}, {One}}) =>
              ~window /\ r.pc = "resolved" /\ r.focus = "false"
         /\ session => r.inner = "true"
         /\ window => r.inner = "true" /\ ResOf(r, "session_attached") = {One}

\* the X11 inner detector said "not focused": only its probe was issued
C5_Witness ==
  /\ detector.kind = "Tmux"
  /\ detector.inner = "X11"
  /\ inv["a"].pc = "resolved"
  /\ inv["a"].inner = "false"
  /\ Len(inv["a"].probes) = 1

\* C6: the X11 detector answers true exactly when the value its probe
\* returned equals the identity it was given, compared as they are.
C6_X11ExactEquality ==
  \A p \in Procs :
    (BaseKind(detector) = "X11" /\ inv[p].inner # "none") =>
      (inv[p].inner = "true" <=> ResOf(inv[p], "getactivewindow") = {inv[p].id})

C6_Witness ==
  /\ detector.kind = "X11"
  /\ inv["a"].pc = "resolved"
  /\ inv["a"].focus = "true"
  /\ inv["a"].id = Some(<<"7">>)

\* the composition the factory built from the environment
Composition(d) ==
  IF d.kind = "Tmux" THEN <<"Tmux", d.inner>> ELSE <<d.kind>>

C8_AlwaysNotify ==
  BaseKind(detector) = "Always" =>
    /\ phase = "ready" => terminalId = AlwaysInit /\ TruthyStr(terminalId)
    /\ \A id \in AnyIds \cup {AlwaysInit} : ~AlwaysIsTerminalFocused(id)
    /\ \A p \in Procs :
         /\ inv[p].inner # "none" => inv[p].inner = "false" /\ inv[p].id = AlwaysInit
         /\ (EnabledGate(inv[p]) /\ inv[p].pc # "resolved") =>
              Decided(inv[p]) /\ inv[p].sent = 1 /\ inv[p].focus = "false"

\* inside tmux without a display: every event so far was dispatched
C8_Witness ==
  /\ Composition(detector) = <<"Tmux", "Always">>
  /\ handled = MaxEvents
  /\ inv["a"].pc = "done"
  /\ inv["a"].outcome = "delivered"
  /\ inv["a"].id = Unsupported
  /\ delivered[inv["a"].eventType] = MaxEvents

\* init ended without an identity: xdotool not resolvable, or the initial
\* active-window probe failed
InitFailed ==
  /\ phase = "ready"
  /\ initLog # <<>>
  /\ LET last == initLog[Len(initLog)]
     IN \/ last.cmd = "which xdotool" /\ (last.res = Null \/ last.res.out = <<>>)
        \/ last.cmd = "getactivewindow" /\ last.res = Null

\* C9: when init yields no identity for a detector that is not the
\* fallback, the detector is not replaced by the fallback, every event of an
\* enabled category is dispatched and isTerminalFocused is never called (no
\* probe is issued).
C9_NoIdentityAlwaysNotifies ==
  InitFailed =>
    /\ terminalId = Null
    /\ detector = createFocusDetector(env)
    /\ BaseKind(detector) = "X11"
    /\ \A p \in Procs :
         /\ inv[p].probes = <<>> /\ inv[p].focus = "none" /\ inv[p].inner = "none"
         /\ inv[p].pc \notin {"activeWindow", "sessionAttached", "windowActive", "resolved"}
         /\ EnabledGate(inv[p]) => Decided(inv[p]) /\ inv[p].sent = 1
    /\ \A c \in EventType : ~TruthyJson(config.events[c]) => delivered[c] = 0

\* xdotool was missing at init and every event since was dispatched
C9_Witness ==
  /\ InitFailed
  /\ detector.kind = "X11"
  /\ initLog[Len(initLog)].cmd = "which xdotool"
  /\ handled = MaxEvents
  /\ inv["a"].pc = "done"
  /\ inv["a"].outcome = "delivered"
  /\ delivered[inv["a"].eventType] = MaxEvents

\* the handler of r has returned to the host with one of the gate's outcomes
GateOutcome(r) ==
  \/ /\ r.outcome = "disabled"
     /\ ~TruthyJson(config.events[r.eventType])
     /\ r.sent = 0 /\ r.probes = <<>>
  \/ /\ r.outcome = "focused"
     /\ TruthyJson(config.events[r.eventType])
     /\ r.focus = "true" /\ r.sent = 0
  \/ /\ r.outcome = "delivered"
     /\ TruthyJson(config.events[r.eventType])
     /\ r.focus # "true" /\ r.sent = 1
     /\ "pending" \notin {r.notify, r.sound}

GateReturnsNormally ==
  \A p \in Procs :
    /\ inv[p].outcome # "rejected"
    /\ (inv[p].pc = "done" /\ inv[p].eventType \in EventType) => GateOutcome(inv[p])

\* C10: every gate invocation returns to the host, with exactly one of the
\* outcomes disabled, focused, delivery attempted, and never with a failure,
\* whatever the probes and the delivery commands do.
C10_GateTerminates ==
  /\ []GateReturnsNormally
  /\ \A p \in Procs : (inv[p].pc \notin {"idle", "done"}) ~> (inv[p].pc = "done")

\* notify-send and canberra-gtk-play both failed and the gate returned
C10_Witness ==
  /\ inv["a"].pc = "done"
  /\ inv["a"].outcome = "delivered"
  /\ inv["a"].failed = {"notify-send", "canberra-gtk-play"}
  /\ SomeUnusable(inv["a"].probes)

\* the README's table and the handler's comments: which category each
\* event type (and the permission.ask hook) notifies for
EventTable ==
  [x \in HostEvents \cup {"permission.ask"} |->
     CASE x = "session.idle" -> "complete"
       [] x = "session.error" -> "error"
       [] x \in {"permission.updated", "permission.asked", "permission.ask"} -> "permission"
       [] x = "question.asked" -> "question"
       [] OTHER -> "none"]

\* C11: each event type reaches the gate with the category of the fixed
\* table; an event of any other type causes no gate invocation, no probe and
\* no delivery; a recognized event is skipped as disabled exactly when the
\* flag of its own category is off.
C11_EventMapping ==
  \A p \in Procs :
    inv[p].pc # "idle" =>
      LET r == inv[p]
      IN /\ r.eventType = EventTable[r.src]
         /\ EventTable[r.src] = "none" =>
              /\ r.pc = "done" /\ r.outcome = "ignored"
              /\ r.probes = <<>> /\ r.sent = 0 /\ r.notify = "none" /\ r.sound = "none"
         /\ EventTable[r.src] # "none" =>
              (r.outcome = "disabled" <=> ~TruthyJson(config.events[EventTable[r.src]]))
         /\ r.outcome = "disabled" => r.pc = "done"

\* question.asked is delivered while the error category is switched off
C11_Witness ==
  /\ inv["a"].src = "question.asked"
  /\ inv["a"].eventType = "question"
  /\ inv["a"].outcome = "delivered"
  /\ ~TruthyJson(config.events["error"])
  /\ handled = MaxEvents
  /\ delivered["question"] = 1

\* what a command may print: the probes' outputs and more whitespace cases
ProbeStdouts ==
  WhichStdouts \cup WindowStdouts \cup TmuxStdouts
    \cup {<<" ", "1", "\n">>, <<"\t", "7", " ", "\n", "\n">>, <<" ", "\n">>, <<"a", "\n", "b">>}

\* t is s without its leading and trailing whitespace
IsTrimOf(t, s) ==
  \E i \in 0..Len(s) : \E j \in i..Len(s) :
    /\ t = SubSeq(s, i + 1, j)
    /\ \A k \in 1..i : s[k] \in Whitespace
    /\ \A k \in (j + 1)..Len(s) : s[k] \in Whitespace
    /\ t # <<>> => t[1] \notin Whitespace /\ t[Len(t)] \notin Whitespace

\* a value of type string | null, the string being trimmed
IsProbeResult(v) ==
  v = Null \/ (v.ok /\ IsTrimOf(v.out, v.out))

\* C12: runCommand gives the trimmed output on success and null on every
\* failure; commandExists is true exactly for a successful probe whose
\* (trimmed) output is not empty; isTerminalFocused ends with a boolean for
\* any identity string, also one no init produced and before init has run.
C12_DetectorNeverRaises ==
  /\ \A o \in ExecOutcomes(ProbeStdouts) :
       /\ o.status = "ok" => runCommand(o).ok /\ IsTrimOf(runCommand(o).out, o.stdout)
       /\ o.status # "ok" => runCommand(o) = Null
       /\ commandExists(o) <=>
            (o.status = "ok" /\ \E k \in DOMAIN o.stdout : o.stdout[k] \notin Whitespace)
  /\ \A i \in DOMAIN initLog : IsProbeResult(initLog[i].res)
  /\ \A p \in Procs :
       /\ \A i \in DOMAIN inv[p].probes : IsProbeResult(inv[p].probes[i].res)
       /\ inv[p].pc = "resolved" => inv[p].focus \in {"true", "false"}
       /\ inv[p].pc \in {"idle", "activeWindow", "sessionAttached", "windowActive", "resolved"}
       /\ inv[p].inner # "none" => inv[p].inner \in {"true", "false"}

\* the Tmux detector asked before init with an identity no init produces
C12_Witness ==
  /\ phase = "created"
  /\ detector.kind = "Tmux"
  /\ detector.inner = "X11"
  /\ inv["a"].pc = "resolved"
  /\ inv["a"].id = Some(<<"7", "\n">>)
  /\ inv["a"].focus = "false"
  /\ ResOf(inv["a"], "getactivewindow") = {Null}

\* the configuration of a file that is missing or not JSON
FullDefaults(cfg) ==
  /\ \A c \in EventType : cfg.events[c] = "true"
  /\ cfg.sound.enabled = "true"

\* C13 as stated: a missing or invalid file gives the full defaults; in a
\* valid file an omitted field takes its default and every field that is
\* present keeps its configured value.
C13_PresentFieldsKept ==
  phase \notin {"start", "unit"} =>
    /\ (~configFile.exists \/ ~configFile.valid) => FullDefaults(config)
    /\ (configFile.exists /\ configFile.valid) =>
         /\ \A c \in EventType :
              config.events[c] =
                (IF configFile.events[c] = Undefined THEN "true" ELSE configFile.events[c])
         /\ config.sound.enabled =
              (IF configFile.sound.enabled = Undefined
                 THEN "true" ELSE configFile.sound.enabled)

\* C13 amended: as above, except that a field the file sets to null takes
\* its default like an omitted one.
C13_LoadConfigDefaults ==
  phase \notin {"start", "unit"} =>
    /\ (~configFile.exists \/ ~configFile.valid) => FullDefaults(config)
    /\ (configFile.exists /\ configFile.valid) =>
         /\ \A c \in EventType :
              config.events[c] =
                (IF configFile.events[c] \in {Undefined, "null"}
                   THEN "true" ELSE configFile.events[c])
         /\ config.sound.enabled =
              (IF configFile.sound.enabled \in {Undefined, "null"}
                 THEN "true" ELSE configFile.sound.enabled)

\* a file that switches error off and omits question and sound
C13_Witness ==
  /\ phase = "ready"
  /\ configFile = Parsed("true", "false", "true", Undefined, Undefined)
  /\ config.events["error"] = "false"
  /\ config.events["question"] = "true"
  /\ config.sound.enabled = "true"

ProbeStates == {"activeWindow", "sessionAttached", "windowActive", "resolved"}

\* C16: within one gate invocation the enablement check comes first, then
\* the focus check, then delivery: no probe for an event of a disabled
\* category, no delivery while the focus check is running, and a delivery
\* only after the focus check answered (or was skipped for lack of identity).
C16_GateOrder ==
  \A p \in Procs :
    inv[p].eventType \in EventType =>
      LET r == inv[p]
      IN /\ ~TruthyJson(config.events[r.eventType]) =>
              /\ r.probes = <<>> /\ r.focus = "none" /\ r.inner = "none"
              /\ r.pc = "done" /\ r.sent = 0
         /\ r.pc \in ProbeStates =>
              r.sent = 0 /\ r.notify = "none" /\ r.sound = "none"
         /\ r.sent > 0 =>
              \/ r.focus = "false"
              \/ ~TruthyStr(terminalId) /\ r.focus = "none" /\ r.probes = <<>>

\* a delivery that followed all three probes of the Tmux detector
C16_Witness ==
  /\ inv["a"].pc = "sending"
  /\ inv["a"].sent = 1
  /\ inv["a"].focus = "false"
  /\ Len(inv["a"].probes) = 3
  /\ inv["a"].probes[3].cmd = "window_active"

ProbeKinds == {"getactivewindow", "session_attached", "window_active"}

TimesIssued(r, cmd) == Cardinality({j \in DOMAIN r.probes : r.probes[j].cmd = cmd})

\* what the probe answers of r alone say about focus
FocusedByProbes(r) ==
  /\ BaseKind(detector) = "X11"
  /\ ResOf(r, "getactivewindow") = {terminalId}
  /\ detector.kind = "Tmux" =>
       ResOf(r, "session_attached") = {One} /\ ResOf(r, "window_active") = {One}

\* C17: an invocation issues each kind of probe at most once, probes afresh
\* whatever happened on earlier events, and its outcome is determined by the
\* configuration, the identity and the answers it obtained itself.
C17_NoRetryNoCache ==
  \A p \in Procs :
    LET r == inv[p]
    IN /\ \A cmd \in ProbeKinds : TimesIssued(r, cmd) <= 1
       /\ Len(r.probes) <= 3
       /\ (Decided(r) /\ EnabledGate(r)) =>
            /\ r.sent = (IF TruthyStr(terminalId) /\ FocusedByProbes(r) THEN 0 ELSE 1)
            /\ (TruthyStr(terminalId) /\ BaseKind(detector) = "X11") =>
                 TimesIssued(r, "getactivewindow") = 1

\* the first event was delivered (probe failed or other window), the next
\* event of the same category probes again and is suppressed
C17_Witness ==
  /\ handled = 2
  /\ inv["a"].pc = "done"
  /\ inv["a"].outcome = "focused"
  /\ TimesIssued(inv["a"], "getactivewindow") = 1
  /\ delivered[inv["a"].eventType] = 1

\* C19 (state part): events are handled only after init has finished, the
\* detector is the one the factory built, init issued each of its probes at
\* most once, and every focus check is given the identity captured by init.
IdentityAsCaptured ==
  /\ (handled > 0 \/ \E p \in Procs : inv[p].pc # "idle") => phase = "ready"
  /\ phase # "start" => detector = createFocusDetector(env)
  /\ \A c \in {"which tmux", "which xdotool", "getactivewindow"} :
       Cardinality({i \in DOMAIN initLog : initLog[i].cmd = c}) <= 1
  /\ \A p \in Procs :
       (inv[p].pc \in ProbeStates \/ inv[p].focus # "none") => inv[p].id = terminalId

\* C19: the detector is built and init run once, before any event; after
\* that no step changes the detector, the captured identity or init's log.
C19_IdentityFixed ==
  /\ []IdentityAsCaptured
  /\ [][phase = "ready" =>
          /\ phase' = "ready"
          /\ terminalId' = terminalId
          /\ detector' = detector
          /\ initLog' = initLog]_vars

\* the focus moved to another window, the identity is still the captured one
C19_Witness ==
  /\ handled = MaxEvents
  /\ terminalId = Some(<<"7">>)
  /\ inv["a"].pc = "done"
  /\ inv["a"].id = terminalId
  /\ ResOf(inv["a"], "getactivewindow") = {Some(<<"9">>)}
  /\ inv["a"].outcome = "delivered"

\* commandExists("tmux") was false in TmuxFocusDetector.init
TmuxNotResolvable ==
  \E i \in DOMAIN initLog :
    initLog[i].cmd = "which tmux" /\ ~(initLog[i].res.ok /\ Len(initLog[i].res.out) > 0)

\* what innerDetector.init() returned, read from init's log
InnerIdentity ==
  IF BaseKind(detector) = "Always" THEN AlwaysInit
  ELSE IF \E i \in DOMAIN initLog : initLog[i].cmd = "getactivewindow"
    THEN initLog[CHOOSE i \in DOMAIN initLog : initLog[i].cmd = "getactivewindow"].res
  ELSE Null

\* C20: when tmux is not resolvable the Tmux detector falls back to the
\* inner detector only: init returns the inner detector's identity and a
\* focus check gives the inner detector's answer.
C20_TmuxFallsBackToInner ==
  (detector.kind = "Tmux" /\ TmuxNotResolvable) =>
    /\ phase = "ready" => terminalId = InnerIdentity
    /\ \A p \in Procs : inv[p].focus # "none" => inv[p].focus = inv[p].inner

\* the positions of str that survive the collapse: every character that is
\* not whitespace, and the first character of every whitespace run
Kept(str) ==
  {i \in DOMAIN str : str[i] \notin Whitespace \/ i = 1 \/ str[i - 1] \notin Whitespace}

\* str with every whitespace run replaced by one space
Collapsed(str) ==
  LET at(k) == CHOOSE i \in Kept(str) : Cardinality({j \in Kept(str) : j <= i}) = k
  IN [k \in 1..Cardinality(Kept(str)) |->
        IF str[at(k)] \in Whitespace THEN " " ELSE str[at(k)]]

\* s without its leading and trailing whitespace
Stripped(s) ==
  CHOOSE t \in {SubSeq(s, i, j) : i \in 1..(Len(s) + 1), j \in 0..Len(s)} : IsTrimOf(t, s)

\* the first cap - 1 characters of s, then the ellipsis, if s is longer than cap
Shortened(s, cap) ==
  IF Len(s) > cap THEN SubSeq(s, 1, cap - 1) \o <<Ellipsis>> ELSE s

Suppressed(p) ==
  /\ detector.kind = "Tmux"
  /\ inv[p].pc = "done"
  /\ inv[p].outcome = "focused"

\* C15 as stated: whenever the gate suppresses there is an instant during
\* that focus check at which all three conditions hold together.
C15_SuppressedOnlyIfSimultaneous ==
  \A p \in Procs : Suppressed(p) => during[p].all

\* C15 (amended): whenever the gate suppresses, each of the three probes,
\* in its turn, read its condition as holding (the focused window is the
\* terminal's, the session is attached, the pane's window is active); the
\* three hold together if the world did not change during the check.
C15_SuppressedOnlyIfEachHeld ==
  \A p \in Procs :
    Suppressed(p) =>
      /\ inv[p].focus = "true"
      /\ Len(inv[p].probes) = 3
      /\ inv[p].probes[1] = [cmd |-> "getactivewindow", res |-> inv[p].id]
      /\ inv[p].probes[2] = [cmd |-> "session_attached", res |-> One]
      /\ inv[p].probes[3] = [cmd |-> "window_active", res |-> One]
      /\ ~during[p].changed => during[p].all

\* suppressed although the three conditions never held together
C15_Witness ==
  /\ Suppressed("a")
  /\ during["a"].changed
  /\ ~during["a"].all

\* the probes an invocation issues on its own, in their order
RanAlone(r) ==
  /\ Len(r.probes) >= 1 => r.probes[1].cmd = "getactivewindow"
  /\ Len(r.probes) >= 2 => r.probes[1].res = r.id /\ r.probes[2].cmd = "session_attached"
  /\ Len(r.probes) >= 3 => r.probes[2].res = One /\ r.probes[3].cmd = "window_active"
  /\ Len(r.probes) <= 3

\* C18: with two invocations in flight, each one's outcome is what it would
\* be alone with the probe answers it received, and no step of one
\* invocation changes anything of the other.
C18_OverlapSafe ==
  /\ [](\A p \in Procs :
          /\ RanAlone(inv[p])
          /\ (Decided(inv[p]) /\ EnabledGate(inv[p])) =>
               (inv[p].outcome = "focused" <=>
                  (TruthyStr(terminalId) /\ FocusedByProbes(inv[p]))))
  /\ [][\A p \in Procs : \A q \in Procs \ {p} :
          inv'[p] # inv[p] => (inv'[q] = inv[q] /\ during'[q] = during[q])]_vars

\* one invocation has its answer "focused" while the other one delivers
C18_Witness ==
  /\ inv["a"].pc = "resolved"
  /\ inv["a"].focus = "true"
  /\ inv["b"].pc = "sending"
  /\ inv["b"].focus = "false"
  /\ inv["b"].notify = "pending"

RECURSIVE SumOver(_, _)
SumOver(f, S) ==
  IF S = {} THEN 0
  ELSE LET x == CHOOSE y \in S : TRUE IN f[x] + SumOver(f, S \ {x})

\* C21: one run of the handler or of the hook makes at most one gate call
\* and so at most one notify-send; a sound is started only next to a
\* notify-send and only if config.sound.enabled; an ignored, disabled or
\* suppressed event starts neither.
C21_AtMostOneAttempt ==
  /\ \A type \in HostEvents :
       /\ Len(gateCalls(type)) <= 1
       /\ Len(gateCalls(type)) = 1 => categoryOf(type) = gateCalls(type)[1].category
       /\ Len(gateCalls(type)) = 0 => categoryOf(type) = "none"
  /\ SumOver(delivered, EventType) <= handled
  /\ \A p \in Procs :
       LET r == inv[p]
       IN /\ r.sent <= 1
          /\ r.notify # "none" <=> r.sent = 1
          /\ r.sound # "none" => (r.notify # "none" /\ TruthyJson(config.sound.enabled))
          /\ r.failed # {} => r.sent = 1
          /\ r.outcome \in {"ignored", "disabled", "focused"} =>
               r.sent = 0 /\ r.notify = "none" /\ r.sound = "none"

\* sound is off in the configuration: the second event is delivered by
\* notify-send alone, the first one started nothing
C21_Witness ==
  /\ handled = 2
  /\ SumOver(delivered, EventType) = 1
  /\ ~TruthyJson(config.sound.enabled)
  /\ inv["a"].pc = "done"
  /\ inv["a"].outcome = "delivered"
  /\ inv["a"].notify = "fulfilled"
  /\ inv["a"].sound = "none"

====
